---- MODULE Spec2Model ----
(***************************************************************************)
(* Model of drive_file_bot.py: the Flask /upload handler (one thread per   *)
(* request, app.run(threaded=True)) and the Telegram get_file_link handler *)
(* (updates handled one after another by the polling application), which   *)
(* share the in-memory dict upload_sessions.                               *)
(*                                                                         *)
(* Every remote call (Drive next_chunk / permissions().create / files().get*)
(* and every Telegram send, reply, get_file, download) either returns or   *)
(* raises; the model takes both outcomes.  Local calls (file.save, mkstemp,*)
(* os.remove on the file the handler itself created, dict operations)      *)
(* return.                                                                 *)
(***************************************************************************)
EXTENDS Integers, Sequences, FiniteSets, TLC

\* ------------------------------------------------------------------ bounds
\* Number of browser requests the model lets arrive.
MaxReqs == 2
\* Number of chat announcements the model lets arrive (each mints at most one token).
MaxAnns == 2
\* The model counts one job's "not yet complete" answers of next_chunk() up to this
\* number and then starts again at 0: the code's loop has no bound and keeps no count.
MaxPolls == 1

Reqs == 1..MaxReqs
\* uuid4().hex values, in the order they are generated.
Tokens == 1..MaxAnns
\* request.values.get("token") when the request carries none (or an empty one).
NoToken == 0
\* A token value that uuid4 never generates (a guess, a mistyped link).
Bogus == MaxAnns + 1
Users == {"u1", "u2"}
NoUser == "nobody"

\* 20 * 1024 * 1024, the size limit of the automatic path.
THRESHOLD == 20 * 1024 * 1024
\* getattr(file_obj, "file_size", None) when the attribute is missing or None.
NoSize == -1
Sizes == {NoSize, THRESHOLD, THRESHOLD + 1}

\* message.document / photo / video / audio / voice, or none of them.
Kinds == {"document", "photo", "video", "audio", "voice", "none"}
\* file_obj = None: the message carries no file.  The model keeps of a file object
\* its file_size only: file_name feeds the Drive file name and filename_hint, and
\* neither is ever read back.
NoFile == [kind |-> "none", file_size |-> NoSize]

\* What the browser sends: GET, POST without a "file" part, POST with one.
Methods == {"GET", "POST_nofile", "POST_file"}

\* The two answers files().get may give: a file with both links, and a file with the
\* view link only; "" is an absent (falsy) field.
Links == {[webContentLink |-> "content_a", webViewLink |-> "view_a"],
          [webContentLink |-> "", webViewLink |-> "view_b"]}

\* ------------------------------------------------------------------ state
VARIABLES
    upload_sessions,  \* token -> session record, or NoSession when the key is absent
    ntokens,          \* how many uuid4 tokens have been generated so far
    tmp_files,        \* the temporary files that exist on disk
    \* one /upload request per r \in Reqs
    rpc,              \* where the request is in upload()
    rmethod,          \* its method and whether it has a "file" part
    rtoken,           \* the token it presents
    rcause,           \* what line 80 found: "missing", "never", "retired", "live", or
                      \* "stale" (in the store, its lifetime over)
    ruser,            \* the local user_id
    rxfer,            \* how far the Drive transfer got
    rpolls,           \* "not yet complete" answers in the running chunk loop, counted
                      \* modulo MaxPolls + 1
    rlink,            \* the local download_link ("" until computed)
    rsent,            \* the Telegram message this request delivered
    rresp,            \* the HTTP response returned
    \* the get_file_link handler and the announcement it is handling
    hpc,              \* where the handler is
    anns,             \* how many announcements have arrived
    huser,            \* update.effective_user.id
    file_obj,         \* the file object found in the message, or NoFile
    route,            \* the branch line 184 took
    hfetch,           \* whether get_file() was called
    hxfer,            \* how far the Drive transfer got
    hpolls,           \* "not yet complete" answers in the running chunk loop, counted
                      \* modulo MaxPolls + 1
    hlink,            \* the local download_link
    hsent,            \* the replies delivered for this announcement, in order
    hfault,           \* whether an exception left the handler uncaught
    htoken,           \* the token minted for this announcement, or NoToken
    \* the wall clock, which no line of the program reads
    aged              \* the tokens minted longer ago than the session lifetime

webvars == <<rpc, rmethod, rtoken, rcause, ruser, rxfer, rpolls, rlink, rsent, rresp>>
tgvars == <<hpc, anns, huser, file_obj, route, hfetch, hxfer, hpolls, hlink, hsent,
            hfault, htoken>>
vars == <<upload_sessions, ntokens, tmp_files, webvars, tgvars, aged>>

\* A value of the dict: {"user_id": ..., "filename_hint": ...}; the hint is written
\* at line 223 and read nowhere, so the model leaves it out.
NoSession == [user_id |-> NoUser]
Session(u) == [user_id |-> u]

\* token in upload_sessions
Live(t) == t \in Tokens /\ upload_sessions[t] # NoSession

\* ------------------------------------------------------------------ responses
NoResp == [status |-> 0, body |-> ""]
InvalidResp == [status |-> 400, body |-> "Invalid or expired token. Start from the Telegram bot."]
FormResp(t, u) == [status |-> 200, body |-> <<"UPLOAD_FORM_HTML", t, u>>]
NoFileResp == [status |-> 400, body |-> "No file provided."]
FailedResp == [status |-> 500, body |-> "Upload failed"]
OkNoNotifyResp(l) == [status |-> 200, body |-> <<"Upload OK but couldn't notify via Telegram. Link:", l>>]
SuccessResp == [status |-> 200, body |-> "Upload successful! Link sent to your Telegram."]
\* Flask's answer when the view function raises (here: KeyError at line 83).
FaultResp == [status |-> 500, body |-> "Internal Server Error"]

\* A variant of the link choice that prefers the view link.
DownloadLink_ViewFirst(info) == IF info.webViewLink # "" THEN info.webViewLink ELSE info.webContentLink

\* file_info.get("webContentLink") or file_info.get("webViewLink")
DownloadLink(info) == IF info.webContentLink # "" THEN info.webContentLink ELSE info.webViewLink

WebFile(r) == <<"upload", r>>
TgFile(n) == <<"tgdl", n>>

Init ==
    /\ upload_sessions = [t \in Tokens |-> NoSession]
    /\ ntokens = 0
    /\ tmp_files = {}
    /\ rpc = [r \in Reqs |-> "idle"]
    /\ rmethod = [r \in Reqs |-> "GET"]
    /\ rtoken = [r \in Reqs |-> NoToken]
    /\ rcause = [r \in Reqs |-> "none"]
    /\ ruser = [r \in Reqs |-> NoUser]
    /\ rxfer = [r \in Reqs |-> "none"]
    /\ rpolls = [r \in Reqs |-> 0]
    /\ rlink = [r \in Reqs |-> ""]
    /\ rsent = [r \in Reqs |-> "none"]
    /\ rresp = [r \in Reqs |-> NoResp]
    /\ hpc = "idle"
    /\ anns = 0
    /\ huser = NoUser
    /\ file_obj = NoFile
    /\ route = "none"
    /\ hfetch = FALSE
    /\ hxfer = "none"
    /\ hpolls = 0
    /\ hlink = ""
    /\ hsent = <<>>
    /\ hfault = FALSE
    /\ htoken = NoToken
    /\ aged = {}

\* ------------------------------------------------------------------ /upload
\* A browser request reaches upload(): its method and whether it has a "file" part
\* are the browser's choice; its token is one of those generated so far (tokens are
\* unguessable), a value never generated, or none.  Slots are filled in order.
Arrive(r) ==
    /\ rpc[r] = "idle"
    /\ IF r = 1 THEN TRUE ELSE rpc[r - 1] # "idle"
    /\ \E m \in Methods, t \in (1..ntokens) \cup {NoToken, Bogus} :
          /\ rmethod' = [rmethod EXCEPT ![r] = m]
          /\ rtoken' = [rtoken EXCEPT ![r] = t]
    /\ rpc' = [rpc EXCEPT ![r] = "check"]
    /\ UNCHANGED <<upload_sessions, ntokens, tmp_files, rcause, ruser, rxfer, rpolls,
                   rlink, rsent, rresp, tgvars, aged>>

\* Why a token does not resolve (the handler itself never looks at this).
Cause(t) ==
    IF t = NoToken THEN "missing"
    ELSE IF t > ntokens THEN "never"
    ELSE IF ~Live(t) THEN "retired"
    ELSE IF t \in aged THEN "stale"
    ELSE "live"

\* A variant of the token check that is made for POST only: a GET goes on to line 83.
UCheck_PostOnly(r) ==
    /\ rpc[r] = "check"
    /\ rcause' = [rcause EXCEPT ![r] = Cause(rtoken[r])]
    /\ IF rmethod[r] # "GET" /\ (rtoken[r] = NoToken \/ ~Live(rtoken[r]))
       THEN /\ rresp' = [rresp EXCEPT ![r] = InvalidResp]
            /\ rpc' = [rpc EXCEPT ![r] = "done"]
       ELSE /\ rpc' = [rpc EXCEPT ![r] = "lookup"]
            /\ UNCHANGED rresp
    /\ UNCHANGED <<upload_sessions, ntokens, tmp_files, rmethod, rtoken, ruser, rxfer,
                   rpolls, rlink, rsent, tgvars, aged>>

\* A variant of the token check that tells a used token from an unknown one.
UCheck_TellsCause(r) ==
    /\ rpc[r] = "check"
    /\ rcause' = [rcause EXCEPT ![r] = Cause(rtoken[r])]
    /\ IF rtoken[r] = NoToken \/ ~Live(rtoken[r])
       THEN /\ rresp' = [rresp EXCEPT ![r] =
                           IF Cause(rtoken[r]) = "retired"
                           THEN [status |-> 410, body |-> "Token already used."]
                           ELSE InvalidResp]
            /\ rpc' = [rpc EXCEPT ![r] = "done"]
       ELSE /\ rpc' = [rpc EXCEPT ![r] = "lookup"]
            /\ UNCHANGED rresp
    /\ UNCHANGED <<upload_sessions, ntokens, tmp_files, rmethod, rtoken, ruser, rxfer,
                   rpolls, rlink, rsent, tgvars, aged>>

\* Lines 79-81: if not token or token not in upload_sessions: return "Invalid ...", 400
UCheck(r) ==
    /\ rpc[r] = "check"
    /\ rcause' = [rcause EXCEPT ![r] = Cause(rtoken[r])]
    /\ IF rtoken[r] = NoToken \/ ~Live(rtoken[r])
       THEN /\ rresp' = [rresp EXCEPT ![r] = InvalidResp]
            /\ rpc' = [rpc EXCEPT ![r] = "done"]
       ELSE /\ rpc' = [rpc EXCEPT ![r] = "lookup"]
            /\ UNCHANGED rresp
    /\ UNCHANGED <<upload_sessions, ntokens, tmp_files, rmethod, rtoken, ruser, rxfer,
                   rpolls, rlink, rsent, tgvars, aged>>

\* A variant of lines 83-92 that takes the session out of the store as it reads it
\* (upload_sessions.pop(token) in place of upload_sessions[token]).
ULookup_Pops(r) ==
    /\ rpc[r] = "lookup"
    /\ IF ~Live(rtoken[r])
       THEN /\ rresp' = [rresp EXCEPT ![r] = FaultResp]
            /\ rpc' = [rpc EXCEPT ![r] = "done"]
            /\ UNCHANGED <<ruser, upload_sessions>>
       ELSE /\ ruser' = [ruser EXCEPT ![r] = upload_sessions[rtoken[r]].user_id]
            /\ upload_sessions' = [upload_sessions EXCEPT ![rtoken[r]] = NoSession]
            /\ IF rmethod[r] = "GET"
               THEN /\ rresp' = [rresp EXCEPT ![r] =
                                   FormResp(rtoken[r], upload_sessions[rtoken[r]].user_id)]
                    /\ rpc' = [rpc EXCEPT ![r] = "done"]
               ELSE IF rmethod[r] = "POST_nofile"
               THEN /\ rresp' = [rresp EXCEPT ![r] = NoFileResp]
                    /\ rpc' = [rpc EXCEPT ![r] = "done"]
               ELSE /\ rpc' = [rpc EXCEPT ![r] = "save"]
                    /\ UNCHANGED rresp
    /\ UNCHANGED <<ntokens, tmp_files, rmethod, rtoken, rcause, rxfer,
                   rpolls, rlink, rsent, tgvars, aged>>

\* Lines 83-92: session = upload_sessions[token] (KeyError when another thread has
\* popped the token since line 80), the GET form, the "No file provided." answer.
ULookup(r) ==
    /\ rpc[r] = "lookup"
    /\ IF ~Live(rtoken[r])
       THEN /\ rresp' = [rresp EXCEPT ![r] = FaultResp]
            /\ rpc' = [rpc EXCEPT ![r] = "done"]
            /\ UNCHANGED ruser
       ELSE /\ ruser' = [ruser EXCEPT ![r] = upload_sessions[rtoken[r]].user_id]
            /\ IF rmethod[r] = "GET"
               THEN /\ rresp' = [rresp EXCEPT ![r] =
                                   FormResp(rtoken[r], upload_sessions[rtoken[r]].user_id)]
                    /\ rpc' = [rpc EXCEPT ![r] = "done"]
               ELSE IF rmethod[r] = "POST_nofile"
               THEN /\ rresp' = [rresp EXCEPT ![r] = NoFileResp]
                    /\ rpc' = [rpc EXCEPT ![r] = "done"]
               ELSE /\ rpc' = [rpc EXCEPT ![r] = "save"]
                    /\ UNCHANGED rresp
    /\ UNCHANGED <<upload_sessions, ntokens, tmp_files, rmethod, rtoken, rcause, rxfer,
                   rpolls, rlink, rsent, tgvars, aged>>

\* Lines 94-99: file.save(tmp_path)
USave(r) ==
    /\ rpc[r] = "save"
    /\ tmp_files' = tmp_files \cup {WebFile(r)}
    /\ rpc' = [rpc EXCEPT ![r] = "chunk"]
    /\ UNCHANGED <<upload_sessions, ntokens, rmethod, rtoken, rcause, ruser, rxfer,
                   rpolls, rlink, rsent, rresp, tgvars, aged>>

\* Lines 107-112: one request_drive.next_chunk() of the loop: response is None
\* (loop again, however often that has happened), a response (leave the loop), or
\* an exception.
UChunk(r) ==
    /\ rpc[r] = "chunk"
    /\ \/ /\ rpolls' = [rpolls EXCEPT ![r] = (@ + 1) % (MaxPolls + 1)]
          /\ UNCHANGED <<rxfer, rpc>>
       \/ /\ rxfer' = [rxfer EXCEPT ![r] = "uploaded"]
          /\ rpc' = [rpc EXCEPT ![r] = "perm"]
          /\ rpolls' = [rpolls EXCEPT ![r] = 0]
       \/ /\ rxfer' = [rxfer EXCEPT ![r] = "failed_chunk"]
          /\ rpc' = [rpc EXCEPT ![r] = "except"]
          /\ rpolls' = [rpolls EXCEPT ![r] = 0]
    /\ UNCHANGED <<upload_sessions, ntokens, tmp_files, rmethod, rtoken, rcause, ruser,
                   rlink, rsent, rresp, tgvars, aged>>

\* Lines 115-119: drive_service.permissions().create(...).execute()
UPerm(r) ==
    /\ rpc[r] = "perm"
    /\ \/ /\ rxfer' = [rxfer EXCEPT ![r] = "granted"]
          /\ rpc' = [rpc EXCEPT ![r] = "info"]
       \/ /\ rxfer' = [rxfer EXCEPT ![r] = "failed_perm"]
          /\ rpc' = [rpc EXCEPT ![r] = "except"]
    /\ UNCHANGED <<upload_sessions, ntokens, tmp_files, rmethod, rtoken, rcause, ruser,
                   rpolls, rlink, rsent, rresp, tgvars, aged>>

\* Lines 122-123: drive_service.files().get(...).execute() and the link choice
UInfo(r) ==
    /\ rpc[r] = "info"
    /\ \/ \E info \in Links :
             /\ rlink' = [rlink EXCEPT ![r] = DownloadLink(info)]
             /\ rxfer' = [rxfer EXCEPT ![r] = "linked"]
             /\ rpc' = [rpc EXCEPT ![r] = "notify"]
       \/ /\ rxfer' = [rxfer EXCEPT ![r] = "failed_info"]
          /\ rpc' = [rpc EXCEPT ![r] = "except"]
          /\ UNCHANGED rlink
    /\ UNCHANGED <<upload_sessions, ntokens, tmp_files, rmethod, rtoken, rcause, ruser,
                   rpolls, rsent, rresp, tgvars, aged>>

\* try: os.remove(tmp_path) except: pass
Remove(files, f) == files \ {f}

\* A variant of the except branch that returns without removing tmp_path.
UExcept_NoCleanup(r) ==
    /\ rpc[r] = "except"
    /\ \/ rsent' = [rsent EXCEPT ![r] = "failure"]
       \/ UNCHANGED rsent
    /\ rresp' = [rresp EXCEPT ![r] = FailedResp]
    /\ rpc' = [rpc EXCEPT ![r] = "done"]
    /\ UNCHANGED <<upload_sessions, ntokens, tmp_files, rmethod, rtoken, rcause, ruser,
                   rxfer, rpolls, rlink, tgvars, aged>>

\* Lines 124-135: the except branch: cleanup, the failure message (delivered; or not,
\* its own failure swallowed or the call never awaited), return "Upload failed: ...",
\* 500.  The token stays in the store.
UExcept(r) ==
    /\ rpc[r] = "except"
    /\ tmp_files' = Remove(tmp_files, WebFile(r))
    /\ \/ rsent' = [rsent EXCEPT ![r] = "failure"]
       \/ UNCHANGED rsent
    /\ rresp' = [rresp EXCEPT ![r] = FailedResp]
    /\ rpc' = [rpc EXCEPT ![r] = "done"]
    /\ UNCHANGED <<upload_sessions, ntokens, rmethod, rtoken, rcause, ruser, rxfer,
                   rpolls, rlink, tgvars, aged>>

\* Lines 137-149: cleanup, then the success message.  tg_bot.send_message is called
\* from a Flask thread without await: it delivers the message, or raises (return
\* "Upload OK but couldn't notify ..." at once, line 152 is not reached), or, where
\* Bot.send_message is a coroutine function (the telegram releases that have
\* ApplicationBuilder), returns a coroutine that never runs: nothing is sent and
\* nothing is raised.
UNotify(r) ==
    /\ rpc[r] = "notify"
    /\ tmp_files' = Remove(tmp_files, WebFile(r))
    /\ \/ /\ rsent' = [rsent EXCEPT ![r] = "success"]
          /\ rpc' = [rpc EXCEPT ![r] = "pop"]
          /\ UNCHANGED rresp
       \/ /\ rresp' = [rresp EXCEPT ![r] = OkNoNotifyResp(rlink[r])]
          /\ rpc' = [rpc EXCEPT ![r] = "done"]
          /\ UNCHANGED rsent
       \/ /\ rpc' = [rpc EXCEPT ![r] = "pop"]
          /\ UNCHANGED <<rsent, rresp>>
    /\ UNCHANGED <<upload_sessions, ntokens, rmethod, rtoken, rcause, ruser, rxfer,
                   rpolls, rlink, tgvars, aged>>

\* Lines 151-154: upload_sessions.pop(token, None); return "Upload successful! ..."
URetire(r) ==
    /\ rpc[r] = "pop"
    /\ upload_sessions' = [upload_sessions EXCEPT ![rtoken[r]] = NoSession]
    /\ rresp' = [rresp EXCEPT ![r] = SuccessResp]
    /\ rpc' = [rpc EXCEPT ![r] = "done"]
    /\ UNCHANGED <<ntokens, tmp_files, rmethod, rtoken, rcause, ruser, rxfer, rpolls,
                   rlink, rsent, tgvars, aged>>

\* ------------------------------------------------------------------ get_file_link
\* Lines 165-176: the first of message.document / photo[-1] / video / audio / voice
\* that is set; nothing when the message carries none of them.
FileObj(kind, size) ==
    IF kind = "none" THEN NoFile
    ELSE [kind |-> "file", file_size |-> size]

\* A variant of the size test with the limit excluded (<).
AutoRelay_Strict(size) == size # NoSize /\ size < THRESHOLD

\* Line 184: file_size is not None and file_size <= 20 * 1024 * 1024
AutoRelay(size) == size # NoSize /\ size <= THRESHOLD

\* Lines 160-184: a message reaches the handler (the previous update is finished);
\* the handler finds the file object and takes its branch.
HAnnounce ==
    /\ hpc \in {"idle", "done"}
    /\ anns < MaxAnns
    /\ anns' = anns + 1
    /\ \E u \in Users, kind \in Kinds, size \in Sizes :
          /\ huser' = u
          /\ file_obj' = FileObj(kind, size)
          /\ route' = IF FileObj(kind, size) = NoFile THEN "reject"
                      ELSE IF AutoRelay(size) THEN "auto"
                      ELSE "handoff"
    /\ hpc' = IF route' = "reject" THEN "reject"
              ELSE IF route' = "auto" THEN "small" ELSE "mint"
    /\ hfetch' = FALSE
    /\ hxfer' = "none"
    /\ hpolls' = 0
    /\ hlink' = ""
    /\ hsent' = <<>>
    /\ hfault' = FALSE
    /\ htoken' = NoToken
    /\ UNCHANGED <<upload_sessions, ntokens, tmp_files, webvars, aged>>

\* A variant of the rejection without its return: the handler goes on to line 220.
HReject_NoReturn ==
    /\ hpc = "reject"
    /\ \/ /\ hsent' = Append(hsent, "invalid_file")
          /\ hpc' = "mint"
          /\ UNCHANGED hfault
       \/ /\ hfault' = TRUE
          /\ hpc' = "done"
          /\ UNCHANGED hsent
    /\ UNCHANGED <<upload_sessions, ntokens, tmp_files, webvars, aged, anns, huser, file_obj,
                   route, hfetch, hxfer, hpolls, hlink, htoken>>

\* Lines 176-178: reply "Please send a valid file ..." and return.  The reply is not
\* inside any try: when it raises, the exception leaves the handler.
HReject ==
    /\ hpc = "reject"
    /\ \/ /\ hsent' = Append(hsent, "invalid_file")
          /\ UNCHANGED hfault
       \/ /\ hfault' = TRUE
          /\ UNCHANGED hsent
    /\ hpc' = "done"
    /\ UNCHANGED <<upload_sessions, ntokens, tmp_files, webvars, aged, anns, huser, file_obj,
                   route, hfetch, hxfer, hpolls, hlink, htoken>>

\* Line 185: reply "Small file detected ..." (before the try).
HSmallReply ==
    /\ hpc = "small"
    /\ \/ /\ hsent' = Append(hsent, "small")
          /\ hpc' = "getfile"
          /\ UNCHANGED hfault
       \/ /\ hfault' = TRUE
          /\ hpc' = "done"
          /\ UNCHANGED hsent
    /\ UNCHANGED <<upload_sessions, ntokens, tmp_files, webvars, aged, anns, huser, file_obj,
                   route, hfetch, hxfer, hpolls, hlink, htoken>>

\* Line 188: tg_file = await file_obj.get_file()
HGetFile ==
    /\ hpc = "getfile"
    /\ hfetch' = TRUE
    /\ \/ /\ hpc' = "download"
          /\ UNCHANGED hxfer
       \/ /\ hxfer' = "failed_fetch"
          /\ hpc' = "except"
    /\ UNCHANGED <<upload_sessions, ntokens, tmp_files, webvars, aged, anns, huser, file_obj,
                   route, hpolls, hlink, hsent, hfault, htoken>>

\* Lines 189-191: tempfile.mkstemp creates the file, then download_to_drive fills it.
HDownload ==
    /\ hpc = "download"
    /\ tmp_files' = tmp_files \cup {TgFile(anns)}
    /\ \/ /\ hpc' = "chunk"
          /\ UNCHANGED hxfer
       \/ /\ hxfer' = "failed_download"
          /\ hpc' = "except"
    /\ UNCHANGED <<upload_sessions, ntokens, webvars, aged, anns, huser, file_obj, route,
                   hfetch, hpolls, hlink, hsent, hfault, htoken>>

\* Lines 194-201: one next_chunk() of the loop.
HChunk ==
    /\ hpc = "chunk"
    /\ \/ /\ hpolls' = (hpolls + 1) % (MaxPolls + 1)
          /\ UNCHANGED <<hxfer, hpc>>
       \/ /\ hxfer' = "uploaded"
          /\ hpc' = "perm"
          /\ hpolls' = 0
       \/ /\ hxfer' = "failed_chunk"
          /\ hpc' = "except"
          /\ hpolls' = 0
    /\ UNCHANGED <<upload_sessions, ntokens, tmp_files, webvars, aged, anns, huser, file_obj,
                   route, hfetch, hlink, hsent, hfault, htoken>>

\* Line 203: permissions().create(...).execute()
HPerm ==
    /\ hpc = "perm"
    /\ \/ /\ hxfer' = "granted"
          /\ hpc' = "info"
       \/ /\ hxfer' = "failed_perm"
          /\ hpc' = "except"
    /\ UNCHANGED <<upload_sessions, ntokens, tmp_files, webvars, aged, anns, huser, file_obj,
                   route, hfetch, hpolls, hlink, hsent, hfault, htoken>>

\* Lines 204-205: files().get(...).execute() and the link choice
HInfo ==
    /\ hpc = "info"
    /\ \/ \E info \in Links :
             /\ hlink' = DownloadLink(info)
             /\ hxfer' = "linked"
             /\ hpc' = "reply"
       \/ /\ hxfer' = "failed_info"
          /\ hpc' = "except"
          /\ UNCHANGED hlink
    /\ UNCHANGED <<upload_sessions, ntokens, tmp_files, webvars, aged, anns, huser, file_obj,
                   route, hfetch, hpolls, hsent, hfault, htoken>>

\* Lines 206-212 and 216-217: cleanup, then reply with the link; the reply is still
\* inside the try, so when it raises the except branch runs.
HReplyLink ==
    /\ hpc = "reply"
    /\ tmp_files' = Remove(tmp_files, TgFile(anns))
    /\ \/ /\ hsent' = Append(hsent, "link")
          /\ hpc' = "done"
       \/ /\ hpc' = "except"
          /\ UNCHANGED hsent
    /\ UNCHANGED <<upload_sessions, ntokens, webvars, aged, anns, huser, file_obj, route,
                   hfetch, hxfer, hpolls, hlink, hfault, htoken>>

\* Lines 213-215: reply "Failed to upload automatically ..." and fall through to the
\* token creation.  Nothing removes tmp_path here; a raising reply leaves the handler.
HExcept ==
    /\ hpc = "except"
    /\ \/ /\ hsent' = Append(hsent, "failed")
          /\ hpc' = "mint"
          /\ UNCHANGED hfault
       \/ /\ hfault' = TRUE
          /\ hpc' = "done"
          /\ UNCHANGED hsent
    /\ UNCHANGED <<upload_sessions, ntokens, tmp_files, webvars, aged, anns, huser, file_obj,
                   route, hfetch, hxfer, hpolls, hlink, htoken>>

\* Line 220: token = uuid.uuid4().hex, a value not generated before.
Uuid4 == ntokens + 1

\* Lines 219-224: upload_sessions[token] = {"user_id": ..., "filename_hint": ...}
HMint ==
    /\ hpc = "mint"
    /\ ntokens' = ntokens + 1
    /\ htoken' = Uuid4
    /\ upload_sessions' = [upload_sessions EXCEPT ![Uuid4] = Session(huser)]
    /\ hpc' = "url"
    /\ UNCHANGED <<tmp_files, webvars, aged, anns, huser, file_obj, route, hfetch, hxfer,
                   hpolls, hlink, hsent, hfault>>

\* Lines 219-224 when uuid4 draws a value it has drawn before (the 122 random bits
\* repeat): the assignment at line 221 is made all the same, with no look at the dict.
HMintCollide ==
    /\ hpc = "mint"
    /\ \E t \in 1..ntokens :
          /\ htoken' = t
          /\ upload_sessions' = [upload_sessions EXCEPT ![t] = Session(huser)]
    /\ hpc' = "url"
    /\ UNCHANGED <<ntokens, tmp_files, webvars, aged, anns, huser, file_obj, route, hfetch,
                   hxfer, hpolls, hlink, hsent, hfault>>

\* Lines 226-235: reply with the upload URL (not inside any try).
HReplyUrl ==
    /\ hpc = "url"
    /\ \/ /\ hsent' = Append(hsent, "url")
          /\ UNCHANGED hfault
       \/ /\ hfault' = TRUE
          /\ UNCHANGED hsent
    /\ hpc' = "done"
    /\ UNCHANGED <<upload_sessions, ntokens, tmp_files, webvars, aged, anns, huser, file_obj,
                   route, hfetch, hxfer, hpolls, hlink, htoken>>

\* ------------------------------------------------------------------ specification
\* The steps of the Flask threads.
WebNext ==
    \/ \E r \in Reqs : Arrive(r)
    \/ \E r \in Reqs : UCheck(r)
    \/ \E r \in Reqs : ULookup(r)
    \/ \E r \in Reqs : USave(r)
    \/ \E r \in Reqs : UChunk(r)
    \/ \E r \in Reqs : UPerm(r)
    \/ \E r \in Reqs : UInfo(r)
    \/ \E r \in Reqs : UExcept(r)
    \/ \E r \in Reqs : UNotify(r)
    \/ \E r \in Reqs : URetire(r)

\* The steps of the Telegram handler.
TgNext ==
    \/ HAnnounce
    \/ HReject
    \/ HSmallReply
    \/ HGetFile
    \/ HDownload
    \/ HChunk
    \/ HPerm
    \/ HInfo
    \/ HReplyLink
    \/ HExcept
    \/ HMint
    \/ HReplyUrl

Next == WebNext \/ TgNext

Spec == Init /\ [][Next]_vars

\* Time passes: the lifetime of a session (24 h in the design) is over for token t.
\* The program keeps no mint time and reads no clock, so this changes nothing it sees.
LifetimeElapses(t) ==
    /\ t \in 1..ntokens
    /\ t \notin aged
    /\ aged' = aged \cup {t}
    /\ UNCHANGED <<upload_sessions, ntokens, tmp_files, webvars, tgvars>>

\* The state Init reaches by HAnnounce (a file over the limit from user u), HMint and
\* HReplyUrl: token 1 is in the store for u and its upload URL has been delivered.
InitHandedOff ==
    /\ \E u \in Users :
          /\ upload_sessions = [t \in Tokens |-> IF t = 1 THEN Session(u) ELSE NoSession]
          /\ huser = u
    /\ ntokens = 1
    /\ tmp_files = {}
    /\ rpc = [r \in Reqs |-> "idle"]
    /\ rmethod = [r \in Reqs |-> "GET"]
    /\ rtoken = [r \in Reqs |-> NoToken]
    /\ rcause = [r \in Reqs |-> "none"]
    /\ ruser = [r \in Reqs |-> NoUser]
    /\ rxfer = [r \in Reqs |-> "none"]
    /\ rpolls = [r \in Reqs |-> 0]
    /\ rlink = [r \in Reqs |-> ""]
    /\ rsent = [r \in Reqs |-> "none"]
    /\ rresp = [r \in Reqs |-> NoResp]
    /\ hpc = "done"
    /\ anns = 1
    /\ file_obj = FileObj("document", THRESHOLD + 1)
    /\ route = "handoff"
    /\ hfetch = FALSE
    /\ hxfer = "none"
    /\ hpolls = 0
    /\ hlink = ""
    /\ hsent = <<"url">>
    /\ hfault = FALSE
    /\ htoken = 1
    /\ aged = {}

\* The handler alone, always given the chance to run: the asyncio loop of
\* run_polling keeps resuming the handler coroutine until it returns.
SpecLive == Init /\ [][TgNext]_vars /\ WF_vars(TgNext)

NextRandom ==
    \/ TgNext
    \/ HMintCollide

\* The handler alone, uuid4 being a random draw that may repeat.
SpecRandom == Init /\ [][NextRandom]_vars

NextClock ==
    \/ WebNext
    \/ \E t \in Tokens : LifetimeElapses(t)

\* The browser side after a hand-off, together with the passing of time (no further
\* announcement arrives).
SpecClock == InitHandedOff /\ [][NextClock]_vars

\* ------------------------------------------------------------------ properties
FailedXfer == {"failed_fetch", "failed_download", "failed_chunk", "failed_perm", "failed_info"}
Delivered(m) == \E i \in 1..Len(hsent) : hsent[i] = m

\* C1: of the POST /upload requests that present one token, at most one retires it and
\* answers "Upload successful!"; no second request presenting that token does.
C1_SingleWinner ==
    \A r1, r2 \in Reqs :
        (r1 # r2 /\ rtoken[r1] = rtoken[r2] /\ rresp[r1] = SuccessResp)
            => rresp[r2] # SuccessResp

\* C2: once a POST /upload has completed with a successful transfer (chunk upload,
\* visibility grant and link fetch all done), its token is no longer in the store.
C2_RetiredAfterSuccess ==
    \A r \in Reqs : (rpc[r] = "done" /\ rxfer[r] = "linked") => ~Live(rtoken[r])

\* C3: every POST /upload that reached the transfer attempt ends with its token
\* retired from the store, whatever the transfer and the notification did.
C3_RetiredAfterAttempt ==
    \A r \in Reqs : (rpc[r] = "done" /\ rxfer[r] # "none") => ~Live(rtoken[r])

\* C4: for an announcement with a supported file the branch taken depends on the size
\* alone: known and <= 20 MiB takes the automatic path; larger or unknown takes the
\* hand-off, which mints a token and sends the upload URL without any fetch, temporary
\* file or Drive call.
C4_RouteBySize ==
    (hpc # "idle" /\ file_obj # NoFile) =>
        /\ route \in {"auto", "handoff"}
        /\ (route = "auto") <=> (file_obj.file_size # NoSize /\ file_obj.file_size <= 20971520)
        /\ route = "handoff" =>
              /\ ~hfetch /\ hxfer = "none" /\ hpolls = 0 /\ hlink = ""
              /\ TgFile(anns) \notin tmp_files
              /\ hpc \in {"mint", "url", "done"}
              /\ hpc \in {"url", "done"} =>
                    htoken = ntokens /\ htoken # NoToken
              /\ (hpc = "done" /\ ~hfault) => hsent = <<"url">>
        /\ (route = "auto" /\ hpc \notin {"small", "done"}) => Delivered("small")

\* C4 witness: a file one byte over the limit was handed off, token minted, URL sent.
C4_Witness ==
    /\ hpc = "done" /\ route = "handoff" /\ file_obj.file_size = THRESHOLD + 1
    /\ htoken # NoToken /\ hsent = <<"url">>

\* C5: for an announcement with a supported file exactly one of the two outcomes
\* reaches the chat user, the Drive link or the upload URL; and when the automatic
\* attempt fails at any step the handler mints a session bound to the announcing user.
C5_ExactlyOneOutcome ==
    (hpc = "done" /\ file_obj # NoFile) =>
        /\ Delivered("link") # Delivered("url")
        /\ hxfer \in FailedXfer =>
              /\ htoken # NoToken
              /\ Live(htoken) => upload_sessions[htoken] = Session(huser)

\* C6: a finished POST /upload has left no temporary file: the file exists only
\* between file.save and the cleanup of the branch that ends the transfer.
C6_WebTmpDeleted ==
    \A r \in Reqs :
        /\ rpc[r] = "done" => WebFile(r) \notin tmp_files
        /\ WebFile(r) \in tmp_files => rpc[r] \in {"chunk", "perm", "info", "except", "notify"}

\* C6 witness: a request whose link fetch failed and whose failure message failed too
\* has returned, its temporary file written and gone.
C6_Witness ==
    \E r \in Reqs :
        /\ rpc[r] = "done" /\ rxfer[r] = "failed_info" /\ rsent[r] = "none"
        /\ rresp[r] = FailedResp /\ WebFile(r) \notin tmp_files

\* C7: once get_file_link has finished with an announcement, the temporary file of
\* its automatic attempt is gone.
C7_TgTmpDeleted ==
    hpc = "done" => TgFile(anns) \notin tmp_files

\* C8: a failing notification never changes the reported outcome: a transfer that
\* succeeded is never reported as failed, a transfer that failed never as successful.
C8_NotifyIndependent ==
    /\ hxfer = "linked" => ~Delivered("failed")
    /\ hxfer \in FailedXfer => ~Delivered("link")
    /\ \A r \in Reqs :
          /\ (rpc[r] = "done" /\ rxfer[r] = "linked") =>
                (rresp[r].status = 200 /\ rsent[r] # "failure")
          /\ (rpc[r] = "done" /\ rxfer[r] \in FailedXfer) =>
                (rresp[r] = FailedResp /\ rsent[r] # "success")

\* C9: a request whose token is missing or not in the store is answered by the token
\* check itself with the invalid-or-expired response, and that step changes nothing
\* else: no temporary file, no Drive call, no chat message, the store as it was.
C9_InvalidTokenNoEffect ==
    [][\A r \in Reqs :
          (rpc[r] = "check" /\ rpc'[r] # "check"
              /\ (rtoken[r] = NoToken \/ ~Live(rtoken[r])))
          => /\ rpc'[r] = "done"
             /\ rresp'[r] = InvalidResp
             /\ UNCHANGED <<upload_sessions, ntokens, tmp_files, ruser, rxfer, rpolls,
                            rlink, rsent, tgvars, aged>>]_vars

\* C9 witness: a POST with a file for a token never minted was rejected, nothing done.
C9_Witness ==
    \E r \in Reqs :
        /\ rpc[r] = "done" /\ rmethod[r] = "POST_file" /\ rcause[r] = "never"
        /\ rresp[r] = InvalidResp /\ rxfer[r] = "none" /\ rsent[r] = "none"
        /\ WebFile(r) \notin tmp_files

C11_ExpiredUnusable ==
    \A r \in Reqs : rcause[r] = "stale" => rresp[r] = InvalidResp

\* C12: every finished GET /upload has one of two outcomes, whatever the other requests
\* and the handler did meanwhile: the invalid-or-expired response, or the upload form
\* bound to its token and to an owner; no GET ends any other way.
C12_GetTwoOutcomes ==
    \A r \in Reqs :
        (rpc[r] = "done" /\ rmethod[r] = "GET") =>
            \/ rresp[r] = InvalidResp
            \/ \E u \in Users : rresp[r] = FormResp(rtoken[r], u)

\* C13: when a job is over its owner has the final message: the link message after a
\* transfer that succeeded, the failure explanation after one that failed (automatic
\* path and browser path alike); and a finished browser request has its response.
C13_FinalMessage ==
    /\ hpc = "done" =>
          /\ hxfer = "linked" => Delivered("link")
          /\ hxfer \in FailedXfer => Delivered("failed")
    /\ \A r \in Reqs :
          rpc[r] = "done" =>
              /\ rresp[r] # NoResp
              /\ rxfer[r] = "linked" => rsent[r] = "success"
              /\ rxfer[r] \in FailedXfer => rsent[r] = "failure"

\* C14: every step the handler takes for a message without a supported file keeps it
\* on the rejection branch: the size test is not taken, no file is fetched, no Drive
\* call is made, no token is minted, no temporary file is written, the store is as it
\* was, and the only reply is the "send a valid file" message.
C14_UnsupportedRejected ==
    [][(tgvars' # tgvars /\ file_obj' = NoFile) =>
          /\ route' = "reject"
          /\ hpc' \in {"reject", "done"}
          /\ ~hfetch' /\ hxfer' = "none" /\ hpolls' = 0 /\ hlink' = ""
          /\ htoken' = NoToken
          /\ hpc' = "reject" => hsent' = <<>>
          /\ (hpc' = "done" /\ ~hfault') => hsent' = <<"invalid_file">>
          /\ UNCHANGED <<upload_sessions, ntokens, tmp_files>>]_vars

\* C14 witness: a message without a file was answered with the "send a valid file"
\* reply and the handler returned, no token minted.
C14_Witness ==
    /\ hpc = "done" /\ anns > 0 /\ file_obj = NoFile /\ route = "reject"
    /\ hsent = <<"invalid_file">> /\ htoken = NoToken /\ ~hfetch

\* C15: the chunk loop always ends: a job that has entered it gets out, its upload
\* complete or failed, however often the backend answers "not yet complete".
C15_ChunkLoopEnds ==
    (hpc = "chunk") ~> (hxfer \in {"uploaded", "failed_chunk"})

\* C16: no failure of a Drive call or of a chat send or reply leaves get_file_link as
\* an uncaught exception (in upload() every such call is inside a try).
C16_NoUncaughtFault ==
    ~hfault

\* C17: the token a mint returns is not in the store at that moment, and a token in
\* the store keeps the owner it was minted for as long as it stays there.
C17_OwnerFixed ==
    [][/\ htoken' # htoken => ~Live(htoken')
       /\ \A t \in Tokens :
             (Live(t) /\ upload_sessions'[t] # NoSession) =>
                 upload_sessions'[t] = upload_sessions[t]]_vars

\* C18: a step of a GET /upload, or of a POST /upload without a "file" part, changes
\* nothing but that request's own position, locals and response: the store, the
\* temporary files, the Drive transfers, the chat messages and the handler are as they
\* were; with a token in the store the answer is the form (GET) or "No file provided."
\* (POST), and the token is still in the store afterwards.
C18_NoTransferNoEffect ==
    [][\A r \in Reqs :
          (rmethod[r] \in {"GET", "POST_nofile"} /\ rpc[r] \in {"check", "lookup"}
              /\ rpc'[r] # rpc[r])
          => /\ rpc'[r] \in {"lookup", "done"}
             /\ UNCHANGED <<upload_sessions, ntokens, tmp_files, rxfer, rpolls, rlink,
                            rsent, tgvars, aged>>
             /\ (rpc[r] = "lookup" /\ Live(rtoken[r])) =>
                   /\ rresp'[r] = IF rmethod[r] = "GET"
                                  THEN FormResp(rtoken[r], upload_sessions[rtoken[r]].user_id)
                                  ELSE NoFileResp
                   /\ upload_sessions'[rtoken[r]] # NoSession]_vars

\* C18 witness: a GET got the form and a POST without a file got "No file provided."
\* for the same token, and that token is still in the store.
C18_Witness ==
    \E r1, r2 \in Reqs :
        /\ rpc[r1] = "done" /\ rmethod[r1] = "GET"
        /\ \E u \in Users : rresp[r1] = FormResp(rtoken[r1], u)
        /\ rpc[r2] = "done" /\ rmethod[r2] = "POST_nofile" /\ rresp[r2] = NoFileResp
        /\ rtoken[r2] = rtoken[r1] /\ Live(rtoken[r1])
        /\ tmp_files = {}

\* The order of the three Drive steps of one job: a step is reached from the one
\* before it only.
StepOrder(before, after) ==
    after # before =>
        /\ after = "uploaded" => before = "none"
        /\ after = "granted" => before = "uploaded"
        /\ after = "linked" => before = "granted"

\* C19: on both paths the success message is sent only when the job's chunk upload,
\* visibility grant and link fetch have all succeeded, in that order; and the link it
\* carries is the file's content link when it has one, its view link otherwise.
C19_SuccessAfterSteps ==
    [][/\ StepOrder(hxfer, hxfer')
       /\ Delivered("link")' =>
             /\ hxfer' = "linked"
             /\ \E info \in Links :
                   hlink' = IF info.webContentLink # "" THEN info.webContentLink
                            ELSE info.webViewLink
       /\ \A r \in Reqs :
             /\ StepOrder(rxfer[r], rxfer'[r])
             /\ rsent'[r] = "success" =>
                   /\ rxfer'[r] = "linked"
                   /\ \E info \in Links :
                         rlink'[r] = IF info.webContentLink # "" THEN info.webContentLink
                                     ELSE info.webViewLink]_vars

\* C19 witness: a browser upload announced its view link (the file had no content
\* link) and an automatic relay announced a content link, each after its three steps.
C19_Witness ==
    /\ \E r \in Reqs :
          rsent[r] = "success" /\ rxfer[r] = "linked" /\ rlink[r] = "view_b"
    /\ Delivered("link") /\ hxfer = "linked" /\ hlink = "content_a"

====
